---- MODULE Spec2Model ----
(***************************************************************************)
(* moviebot.py: a Lex code hook.  One invocation of lambda_handler takes   *)
(* an intent request (intent name, invocation source, slot map, session    *)
(* attributes), possibly queries the listings / metadata providers, and    *)
(* returns one response.                                                   *)
(*                                                                         *)
(* Python values are modelled as tagged records (None, False, str, dict).  *)
(* A str is a sequence of tokens: user and provider supplied strings are   *)
(* sequences of one-character tokens, a literal of the source is one       *)
(* token, and %-formatting / join is concatenation of token sequences.     *)
(***************************************************************************)
EXTENDS Integers, Sequences, FiniteSets, TLC

VARIABLES
    event,          \* the intent request handed to lambda_handler
    provider,       \* the replies the providers give during this invocation
    ratio,          \* SequenceMatcher ratio (percent) of each name to the query
    result,         \* what lambda_handler returned, or the exception it raised
    session,        \* the session attributes the front end holds between turns
    pc,             \* "idle" | "invoked" | "done"
    zipcode_text,   \* text typed into the zipcode slot (validator on its own)
    zipcode_result, \* [zipcode, output_session_attributes] of validate_zipcode
    options,        \* option list handed to build_response_card
    card            \* the response card built from it

vars == <<event, provider, ratio, result, session, pc,
          zipcode_text, zipcode_result, options, card>>

----------------------------------------------------------------------------
(* Python values *)

None == [t |-> "None", v |-> <<>>]

False == [t |-> "False", v |-> <<>>]

Str(s) == [t |-> "str", v |-> s]

Dict(f) == [t |-> "dict", v |-> f]

\* Python truth value: None, False, '' and {} are falsy.
Truthy(x) ==
    CASE x.t = "None" -> FALSE
      [] x.t = "False" -> FALSE
      [] x.t = "str" -> Len(x.v) > 0
      [] x.t = "dict" -> DOMAIN x.v # {}

\* d[k] = v on a dict
Put(f, k, val) == [x \in DOMAIN f \cup {k} |-> IF x = k THEN val ELSE f[x]]

\* the key is added to a response only "if message:" / "if response_card:"
Opt(k, val) == IF Truthy(val) THEN k :> val.v ELSE <<>>

PlainText(content) == Dict([contentType |-> "PlainText", content |-> content])

----------------------------------------------------------------------------
(* Bounds of the model *)

MaxZipLen == 10

MaxNonDigits == 2

MaxOptions == 12

MaxMovies == 2

MaxShowtimes == 2

----------------------------------------------------------------------------
(* validate_zipcode *)

Digits == {"0", "1", "2", "3", "4", "5", "6", "7", "8", "9"}

\* '$' matches at the end of the string and before a final newline
ZipcodeEnds(s) ==
    {Len(s)} \cup (IF Len(s) > 0 /\ s[Len(s)] = "\n" THEN {Len(s) - 1} ELSE {})

\* re.search('^(\d{5})([- ])?(\d{4})?$', zipcode) finds a match
ZipcodeMatchStrict(s) ==
    \E e \in ZipcodeEnds(s) : \E sep \in 0..1, ext \in {0, 4} :
        /\ e = 5 + sep + ext
        /\ sep = 1 => ext = 4
        /\ \A i \in 1..5 : s[i] \in Digits
        /\ sep = 1 => s[6] \in {"-", " "}
        /\ \A i \in (5 + sep + 1)..e : s[i] \in Digits

ZipcodeMatch(s) ==
    \E e \in ZipcodeEnds(s) : \E sep \in 0..1, ext \in {0, 4} :
        /\ e = 5 + sep + ext
        /\ \A i \in 1..5 : s[i] \in Digits
        /\ sep = 1 => s[6] \in {"-", " "}
        /\ \A i \in (5 + sep + 1)..e : s[i] \in Digits

\* zipcode_match.group(0), the whole match, in the place of group(1)
ZipcodeGroup0(s) == s

\* zipcode_match.group(1)
ZipcodeGroup1(s) == SubSeq(s, 1, 5)

\* a fresh value that fails the format check gives way to a stored one
validate_zipcode_falling_back(slots, output_session_attributes) ==
    LET attrs == IF ~Truthy(output_session_attributes)
                 THEN Dict(<<>>) ELSE output_session_attributes
        stored == IF Truthy(attrs) /\ "zipcode" \in DOMAIN attrs.v
                  THEN attrs.v["zipcode"]
                  ELSE None
        fresh == "zipcode" \in DOMAIN slots /\ Truthy(slots["zipcode"])
        zipcode == IF fresh /\ (ZipcodeMatch(slots["zipcode"].v) \/ ~Truthy(stored))
                   THEN slots["zipcode"]
                   ELSE stored
    IN  IF Truthy(zipcode)
        THEN IF ZipcodeMatch(zipcode.v)
             THEN <<Str(ZipcodeGroup1(zipcode.v)),
                    Dict(Put(attrs.v, "zipcode", Str(ZipcodeGroup1(zipcode.v))))>>
             ELSE <<False, attrs>>
        ELSE <<zipcode, attrs>>

validate_zipcode_trusting(slots, output_session_attributes) ==
    LET attrs == IF ~Truthy(output_session_attributes)
                 THEN Dict(<<>>) ELSE output_session_attributes
        fresh == "zipcode" \in DOMAIN slots /\ Truthy(slots["zipcode"])
        zipcode == IF fresh THEN slots["zipcode"]
                   ELSE IF Truthy(attrs) /\ "zipcode" \in DOMAIN attrs.v
                        THEN attrs.v["zipcode"]
                        ELSE None
    IN  IF fresh
        THEN IF ZipcodeMatch(zipcode.v)
             THEN <<Str(ZipcodeGroup1(zipcode.v)),
                    Dict(Put(attrs.v, "zipcode", Str(ZipcodeGroup1(zipcode.v))))>>
             ELSE <<False, attrs>>
        ELSE <<zipcode, attrs>>

validate_zipcode(slots, output_session_attributes) ==
    LET attrs == IF ~Truthy(output_session_attributes)
                 THEN Dict(<<>>) ELSE output_session_attributes
        zipcode == IF "zipcode" \in DOMAIN slots /\ Truthy(slots["zipcode"])
                   THEN slots["zipcode"]
                   ELSE IF Truthy(attrs) /\ "zipcode" \in DOMAIN attrs.v
                        THEN attrs.v["zipcode"]
                        ELSE None
    IN  IF Truthy(zipcode)
        THEN IF ZipcodeMatch(zipcode.v)
             THEN <<Str(ZipcodeGroup1(zipcode.v)),
                    Dict(Put(attrs.v, "zipcode", Str(ZipcodeGroup1(zipcode.v))))>>
             ELSE <<False, attrs>>
        ELSE <<zipcode, attrs>>

----------------------------------------------------------------------------
(* The validator on its own: a string is typed into the zipcode slot one   *)
(* character at a time and validate_zipcode is applied to it.              *)

ZipAlphabet == {"1", "9", "-", " ", "x", "\n"}

NonDigits(s) == Cardinality({i \in 1..Len(s) : s[i] \notin Digits})

NoZipResult == <<None, None>>

InitZip ==
    /\ zipcode_text = <<>>
    /\ zipcode_result = NoZipResult

TypeChar ==
    \E c \in ZipAlphabet :
        /\ Len(zipcode_text) < MaxZipLen
        /\ c \notin Digits => NonDigits(zipcode_text) < MaxNonDigits
        /\ zipcode_text' = Append(zipcode_text, c)
        /\ zipcode_result' = NoZipResult

ValidateSlot ==
    /\ zipcode_result = NoZipResult
    /\ zipcode_text # <<>>
    /\ zipcode_result' = validate_zipcode([zipcode |-> Str(zipcode_text)], None)
    /\ UNCHANGED zipcode_text

----------------------------------------------------------------------------
(* Helpers to build responses *)

elicit_slot(session_attributes, intent_name, slots, slot_to_elicit, message, response_card) ==
    [sessionAttributes |-> session_attributes,
     dialogAction |->
        [type |-> "ElicitSlot",
         intentName |-> intent_name,
         slots |-> slots,
         slotToElicit |-> slot_to_elicit]
        @@ Opt("message", message) @@ Opt("responseCard", response_card)]

elicit_intent(session_attributes, intent_name, message, response_card) ==
    [sessionAttributes |-> session_attributes,
     dialogAction |->
        [type |-> "ElicitIntent"]
        @@ Opt("message", message) @@ Opt("responseCard", response_card)]

confirm_intent(session_attributes, intent_name, slots, message, response_card) ==
    [sessionAttributes |-> session_attributes,
     dialogAction |->
        [type |-> "ConfirmIntent",
         intentName |-> intent_name,
         slots |-> slots]
        @@ Opt("message", message) @@ Opt("responseCard", response_card)]

close(session_attributes, fulfillment_state, message) ==
    [sessionAttributes |-> session_attributes,
     dialogAction |->
        [type |-> "Close",
         fulfillmentState |-> fulfillment_state,
         message |-> message]]

delegate_rewriting_zipcode(session_attributes, slots) ==
    [sessionAttributes |-> session_attributes,
     dialogAction |->
        [type |-> "Delegate",
         slots |-> IF Truthy(session_attributes)
                      /\ "zipcode" \in DOMAIN session_attributes.v
                   THEN Put(slots, "zipcode", session_attributes.v["zipcode"])
                   ELSE slots]]

delegate(session_attributes, slots) ==
    [sessionAttributes |-> session_attributes,
     dialogAction |->
        [type |-> "Delegate",
         slots |-> slots]]

build_validation_result(is_valid, violated_slot, message_content) ==
    [isValid |-> is_valid,
     violatedSlot |-> violated_slot,
     message |-> [contentType |-> "PlainText", content |-> message_content]]

----------------------------------------------------------------------------
(* build_response_card *)

Min(a, b) == IF a < b THEN a ELSE b

\* Python options[start:end], 0-based and clamped to the list
Slice(s, start, end) == SubSeq(s, start + 1, Min(end, Len(s)))

DigitToken == <<"0", "1", "2", "3", "4", "5", "6", "7", "8", "9">>

\* "%d" % n, n >= 0
RECURSIVE DecStr(_)
DecStr(n) ==
    IF n < 10 THEN <<DigitToken[n + 1]>>
    ELSE DecStr(n \div 10) \o <<DigitToken[(n % 10) + 1]>>

build_response_card_truncating(title, subtitle, opts) ==
    LET cnt == Len(opts) \div 5
        attachment(i) ==
            LET group == Slice(opts, i * 5, (i + 1) * 5)
            IN  [title |-> IF cnt > 1
                           THEN title \o <<" - page ">> \o DecStr(i + 1)
                           ELSE title,
                 subTitle |-> subtitle,
                 buttons |-> [j \in 1..Min(5, Len(group)) |-> group[j]]]
    IN  [contentType |-> "application/vnd.amazonaws.card.generic",
         version |-> 1,
         genericAttachments |-> [i \in 1..cnt |-> attachment(i - 1)]]

build_response_card(title, subtitle, opts) ==
    LET cnt == (Len(opts) \div 5) + (IF Len(opts) % 5 > 0 THEN 1 ELSE 0)
        attachment(i) ==
            LET group == Slice(opts, i * 5, (i + 1) * 5)
            IN  [title |-> IF cnt > 1
                           THEN title \o <<" - page ">> \o DecStr(i + 1)
                           ELSE title,
                 subTitle |-> subtitle,
                 buttons |-> [j \in 1..Min(5, Len(group)) |-> group[j]]]
    IN  [contentType |-> "application/vnd.amazonaws.card.generic",
         version |-> 1,
         genericAttachments |-> [i \in 1..cnt |-> attachment(i - 1)]]

----------------------------------------------------------------------------
(* The card builder on its own: options are appended one at a time and     *)
(* build_response_card is applied to the list.                             *)

OptionPool ==
    {[text |-> <<"A">>, value |-> <<"When is theater ", "T", " showing film ", "A">>],
     [text |-> <<"B">>, value |-> <<"When is theater ", "T", " showing film ", "B">>]}

CardTitle == <<"Now showing">>

CardSubtitle == <<"Select a movie to see showtimes">>

NoCard == [built |-> FALSE, value |-> <<>>]

InitCard ==
    /\ options = <<>>
    /\ card = NoCard

AddOption ==
    \E o \in OptionPool :
        /\ Len(options) < MaxOptions
        /\ options' = Append(options, o)
        /\ card' = NoCard

BuildCard ==
    /\ ~card.built
    /\ card' = [built |-> TRUE,
                value |-> build_response_card(CardTitle, CardSubtitle, options)]
    /\ UNCHANGED options

----------------------------------------------------------------------------
(* Helper functions *)

LowerToken(c) ==
    CASE c = "A" -> "a" [] c = "B" -> "b" [] c = "T" -> "t"
      [] c = "U" -> "u" [] c = "Q" -> "q" [] c = "R" -> "r"
      [] OTHER -> c

\* str.lower()
Lower(s) == [i \in 1..Len(s) |-> LowerToken(s[i])]

Whitespace == {" ", "\t", "\n"}

RECURSIVE LStrip(_)
LStrip(s) == IF s # <<>> /\ Head(s) \in Whitespace THEN LStrip(Tail(s)) ELSE s

RECURSIVE RStrip(_)
RStrip(s) ==
    IF s # <<>> /\ s[Len(s)] \in Whitespace
    THEN RStrip(SubSeq(s, 1, Len(s) - 1)) ELSE s

\* str.strip()
Strip(s) == RStrip(LStrip(s))

\* SequenceMatcher(None, a, b).ratio(), in percent.  difflib is a library:
\* its value on this invocation's strings is the table in the variable ratio.
similar(a, b) == ratio[<<a, b>>]

\* "if x in list: continue / else: list.append(x)" over a sequence
RECURSIVE Unique(_)
Unique(s) ==
    IF s = <<>> THEN <<>>
    ELSE LET front == Unique(SubSeq(s, 1, Len(s) - 1))
             x == s[Len(s)]
         IN  IF \E i \in 1..Len(front) : front[i] = x
             THEN front ELSE Append(front, x)

RECURSIVE Flatten(_)
Flatten(ss) == IF ss = <<>> THEN <<>> ELSE Head(ss) \o Flatten(Tail(ss))

\* "\n".join(lines)
RECURSIVE Join(_)
Join(lines) ==
    IF lines = <<>> THEN <<>>
    ELSE IF Len(lines) = 1 THEN lines[1]
    ELSE lines[1] \o <<"\n">> \o Join(Tail(lines))

\* arrow.get(text, ...).format(...) on the date texts the providers send
ArrowFormat(text) ==
    CASE text = <<"2018-03-02T19:30">> -> <<"Fri, Mar 2nd @ 7:30 pm">>
      [] text = <<"2018-03-03T14:05">> -> <<"Sat, Mar 3rd @ 2:05 pm">>
      [] text = <<"2018-02-16">> -> <<"Fri, Feb 16th 2018">>

\* r.status_code == 200 and r.text
ReplyOk(r) == r.status_code = 200 /\ Truthy(r.text)

Return(value, calls) == [outcome |-> "return", value |-> value, calls |-> calls]

Raise(exception, calls) ==
    [outcome |-> "raise", value |-> [exception |-> exception], calls |-> calls]

\* the exception of d[k], "" when d[k] has a value
SubscriptError(d, k) ==
    IF d.t = "None" THEN "TypeError"
    ELSE IF k \notin DOMAIN d.v THEN "KeyError"
    ELSE ""

\* the best-match loop: best_sim = 0, best = '', then for each candidate in
\* order "if prob >= 0.5: if prob > best_sim: best_sim, best = prob, name"
RECURSIVE best_match(_, _)
best_match(names, query) ==
    IF names = <<>> THEN [sim |-> 0, name |-> <<>>]
    ELSE LET best == best_match(SubSeq(names, 1, Len(names) - 1), query)
             name == names[Len(names)]
             prob == similar(Strip(Lower(name)), Strip(Lower(query)))
         IN  IF prob >= 50 /\ prob > best.sim
             THEN [sim |-> prob, name |-> name] ELSE best

\* the same loop in get_movie_detail, which also keeps the id: best_id = 0
RECURSIVE best_match_id(_, _)
best_match_id(results, query) ==
    IF results = <<>> THEN [sim |-> 0, id |-> 0, title |-> <<>>]
    ELSE LET best == best_match_id(SubSeq(results, 1, Len(results) - 1), query)
             m == results[Len(results)]
             prob == similar(Strip(Lower(m.title)), Strip(Lower(query)))
         IN  IF prob >= 50 /\ prob > best.sim
             THEN [sim |-> prob, id |-> m.id, title |-> m.title] ELSE best

Titles(movies) == [i \in 1..Len(movies) |-> movies[i].title]

TheatreNamesOf(m) == [j \in 1..Len(m.showtimes) |-> m.showtimes[j].theatre.name]

\* "for m in movies: for s in m['showtimes']" in order
TheatreNames(movies) ==
    Flatten([i \in 1..Len(movies) |-> TheatreNamesOf(movies[i])])

----------------------------------------------------------------------------
(* Functions that control the bot's behavior.  Each returns Return(response,*)
(* calls) or Raise(exception, calls), calls being the number of provider   *)
(* requests issued.                                                        *)

InvalidZipcodeMessage ==
    <<"Whoops! You entered an invalid zip code. What is your zip code?">>

\* the "perform slot validation" block, the same in the four handlers
slot_validation_prompting(intent_request) ==
    LET slots == intent_request.currentIntent.slots
        validated == validate_zipcode(slots, intent_request.sessionAttributes)
        zipcode == validated[1]
        output_session_attributes == validated[2]
    IN  IF ~Truthy(zipcode)
        THEN IF zipcode = False
             THEN Return(build_validation_result(FALSE, "zipcode",
                                                 InvalidZipcodeMessage), 0)
             ELSE Return(elicit_slot(output_session_attributes,
                                     intent_request.currentIntent.name,
                                     slots, "zipcode",
                                     PlainText(<<"What is your zip code?">>),
                                     None), 0)
        ELSE Return(delegate(output_session_attributes, slots), 0)

slot_validation(intent_request) ==
    LET slots == intent_request.currentIntent.slots
        validated == validate_zipcode(slots, intent_request.sessionAttributes)
        zipcode == validated[1]
        output_session_attributes == validated[2]
    IN  IF ~Truthy(zipcode)
        THEN IF zipcode = False
             THEN Return(build_validation_result(FALSE, "zipcode",
                                                 InvalidZipcodeMessage), 0)
             ELSE Return(elicit_slot(output_session_attributes,
                                     intent_request.currentIntent.name,
                                     slots, "zipcode", None, None), 0)
        ELSE Return(delegate(output_session_attributes, slots), 0)

HelpExamples ==
    << <<"  * What movies are out right now?">>,
       <<"  * What movies are playing near _zipcode_?">>,
       <<"  * Where is _movie_ playing?">>,
       <<"  * Tell me when _movie_ is showing at _theater_">>,
       <<"  * How long is _movie_?">>,
       <<"  * What is _movie_ rated?">> >>

help(intent_request) ==
    Return(close(intent_request.sessionAttributes, "Fulfilled",
                 [contentType |-> "PlainText",
                  content |-> <<"You can ask me for information about when and where movies are playing, as well as for basic info on current movies. Here are some examples of things you can ask me:\n">>
                              \o Join(HelpExamples)]), 0)

\* rating: the certification of the last 'US' entry, '' when there is none
RECURSIVE Rating(_)
Rating(results) ==
    IF results = <<>> THEN <<>>
    ELSE LET r == results[Len(results)]
         IN  IF r.iso_3166_1 = "US"
             THEN r.release_dates[1].certification
             ELSE Rating(SubSeq(results, 1, Len(results) - 1))

get_movie_detail(intent_request) ==
    LET movie_title == intent_request.currentIntent.slots["movie_title"]
        output_session_attributes == intent_request.sessionAttributes
        search == provider.search
        best == IF ReplyOk(search)
                THEN best_match_id(search.json.results, movie_title.v)
                ELSE [sim |-> 0, id |-> 0, title |-> <<>>]
        releases == provider.release_dates
        detail == provider.movie
        rating == IF ReplyOk(releases) THEN Rating(releases.json.results) ELSE <<>>
        runtime == IF ReplyOk(detail) THEN detail.json.runtime ELSE 0
        release_date == IF ReplyOk(detail)
                        THEN ArrowFormat(detail.json.release_date) ELSE <<>>
    IN  IF movie_title.t = "None" THEN Raise("AttributeError", 0)
        ELSE IF best.id # 0
        THEN IF /\ ReplyOk(releases)
                /\ \E i \in 1..Len(releases.json.results) :
                      /\ releases.json.results[i].iso_3166_1 = "US"
                      /\ releases.json.results[i].release_dates = <<>>
             THEN Raise("IndexError", 2)
             ELSE Return(close(output_session_attributes, "Fulfilled",
                     [contentType |-> "PlainText",
                      content |-> <<"Here is some info for *">> \o best.title
                                  \o <<"*:\n_Release date_: ">> \o release_date
                                  \o <<"\n_Runtime_: ">> \o DecStr(runtime)
                                  \o <<" mins\n_Rating_: ">> \o rating]), 3)
        ELSE Return(close(output_session_attributes, "Fulfilled",
                     [contentType |-> "PlainText",
                      content |-> <<"I'm sorry, I can't find any info for *">>
                                  \o movie_title.v \o <<"*">>]), 1)

\* the three backquotes of the message literal (a TLA+ string cannot hold one)
CodeFence == "[3 backquotes]"

get_showtimes(intent_request) ==
    LET slots == intent_request.currentIntent.slots
        output_session_attributes == intent_request.sessionAttributes
        movie_title == slots["movie_title"].v
        theater_name == slots["theater_name"].v
        r == provider.showings
        movies == r.json
        best_title == best_match(Titles(movies), movie_title).name
        best_theater == best_match(TheatreNames(movies), theater_name).name
        AtBest(s) == s.theatre.name = best_theater
        TimesOf(m) ==
            IF m.title = best_title
            THEN LET at == SelectSeq(m.showtimes, AtBest)
                 IN  [j \in 1..Len(at) |-> ArrowFormat(at[j].dateTime)]
            ELSE <<>>
        showtimes == Flatten([i \in 1..Len(movies) |-> TimesOf(movies[i])])
        showtimes_list ==
            Join([j \in 1..Len(showtimes) |-> <<"* ">> \o showtimes[j]])
    IN  IF intent_request.invocationSource = "DialogCodeHook"
        THEN slot_validation(intent_request)
        ELSE IF SubscriptError(output_session_attributes, "zipcode") # ""
        THEN Raise(SubscriptError(output_session_attributes, "zipcode"), 0)
        ELSE IF ~ReplyOk(r)
        THEN \* showtimes is assigned only inside "if r.status_code == 200 ..."
             Raise("UnboundLocalError", 1)
        ELSE IF Len(showtimes) > 0
        THEN Return(close(output_session_attributes, "Fulfilled",
                [contentType |-> "PlainText",
                 content |-> <<"*">> \o best_title \o <<"* is showing at ">>
                             \o best_theater
                             \o <<" at the following times:\n", CodeFence>>
                             \o showtimes_list \o <<CodeFence>>]), 1)
        ELSE Return(close(output_session_attributes, "Fulfilled",
                [contentType |-> "PlainText",
                 content |-> <<"I'm sorry, I can't find any showtimes for *">>
                             \o best_title \o <<"* at ">> \o best_theater]), 1)

find_movie(intent_request) ==
    LET slots == intent_request.currentIntent.slots
        output_session_attributes == intent_request.sessionAttributes
        movie_title == slots["movie_title"].v
        r == provider.showings
        movies == r.json
        best_title == best_match(Titles(movies), movie_title).name
        IsBest(m) == m.title = best_title
        theaters == IF ReplyOk(r)
                    THEN Unique(TheatreNames(SelectSeq(movies, IsBest)))
                    ELSE <<>>
        theater_opts ==
            [i \in 1..Len(theaters) |->
                [text |-> theaters[i],
                 value |-> <<"When is theater ">> \o theaters[i]
                           \o <<" showing film ">> \o best_title]]
    IN  IF intent_request.invocationSource = "DialogCodeHook"
        THEN slot_validation(intent_request)
        ELSE IF SubscriptError(output_session_attributes, "zipcode") # ""
        THEN Raise(SubscriptError(output_session_attributes, "zipcode"), 0)
        ELSE IF Len(theaters) > 0
        THEN Return(elicit_intent(output_session_attributes, "FindShowtimes",
                PlainText(<<"*">> \o best_title
                          \o <<"* is showing at the following theaters:">>),
                Dict(build_response_card(
                        <<"Theaters showing ">> \o best_title,
                        <<"Select a theater to see showtimes">>,
                        theater_opts))), 1)
        ELSE Return(close(output_session_attributes, "Fulfilled",
                [contentType |-> "PlainText",
                 content |-> <<"I'm sorry, I can't find any theaters showing *">>
                             \o movie_title \o <<"*">>]), 1)

get_theater_movies(intent_request) ==
    LET slots == intent_request.currentIntent.slots
        output_session_attributes == intent_request.sessionAttributes
        theater_name == slots["theater_name"].v
        r == provider.showings
        movies == r.json
        best_theater == best_match(TheatreNames(movies), theater_name).name
        ShowsAtBest(m) ==
            \E j \in 1..Len(m.showtimes) :
                m.showtimes[j].theatre.name = best_theater
        movies_list == IF ReplyOk(r)
                       THEN Unique(Titles(SelectSeq(movies, ShowsAtBest)))
                       ELSE <<>>
        movie_opts ==
            [i \in 1..Len(movies_list) |->
                [text |-> movies_list[i],
                 value |-> <<"When is theater ">> \o best_theater
                           \o <<" showing film ">> \o movies_list[i]]]
    IN  IF intent_request.invocationSource = "DialogCodeHook"
        THEN slot_validation(intent_request)
        ELSE IF SubscriptError(output_session_attributes, "zipcode") # ""
        THEN Raise(SubscriptError(output_session_attributes, "zipcode"), 0)
        ELSE IF Len(movies_list) > 0
        THEN Return(elicit_intent(output_session_attributes, "FindShowtimes",
                PlainText(<<"Currently showing at *">> \o best_theater
                          \o <<"*:">>),
                Dict(build_response_card(
                        <<"Now showing">>,
                        <<"Select a movie to see showtimes">>,
                        movie_opts))), 1)
        ELSE Return(close(output_session_attributes, "Fulfilled",
                [contentType |-> "PlainText",
                 content |-> <<"I'm sorry, I can't find any movies showing at *">>
                             \o theater_name \o <<"*">>]), 1)

get_movies(intent_request) ==
    LET slots == intent_request.currentIntent.slots
        output_session_attributes == intent_request.sessionAttributes
        zipcode == output_session_attributes.v["zipcode"].v
        r == provider.showings
        movies_list == IF ReplyOk(r) THEN Unique(Titles(r.json)) ELSE <<>>
        movie_opts ==
            [i \in 1..Len(movies_list) |->
                [text |-> movies_list[i],
                 value |-> <<"Where is the film ">> \o movies_list[i]
                           \o <<" playing near ">> \o zipcode]]
    IN  IF intent_request.invocationSource = "DialogCodeHook"
        THEN slot_validation(intent_request)
        ELSE IF SubscriptError(output_session_attributes, "zipcode") # ""
        THEN Raise(SubscriptError(output_session_attributes, "zipcode"), 0)
        ELSE IF Len(movies_list) > 0
        THEN Return(elicit_intent(output_session_attributes, "FindMovie",
                PlainText(<<"Here are the movies I found:">>),
                Dict(build_response_card(
                        <<"Movies showing near ">> \o zipcode,
                        <<"Select a movie to see theaters">>,
                        movie_opts))), 1)
        ELSE Return(close(output_session_attributes, "Fulfilled",
                [contentType |-> "PlainText",
                 content |-> <<"I'm sorry, I can't find any movies showing near *">>
                             \o zipcode \o <<"*">>]), 1)

----------------------------------------------------------------------------
(* Intents *)

dispatch(intent_request) ==
    LET intent_name == intent_request.currentIntent.name
    IN  CASE intent_name = "FindMovie" -> find_movie(intent_request)
          [] intent_name = "GetTheaterMovies" -> get_theater_movies(intent_request)
          [] intent_name = "GetMovies" -> get_movies(intent_request)
          [] intent_name = "FindShowtimes" -> get_showtimes(intent_request)
          [] intent_name = "GetMovieDetail" -> get_movie_detail(intent_request)
          [] intent_name = "GetHelp" -> help(intent_request)
          [] OTHER -> Raise("Exception", 0)

lambda_handler(ev) == dispatch(ev)

----------------------------------------------------------------------------
(* The front end and the providers: what one invocation can be given *)

Zip5 == <<"8", "5", "7", "1", "9">>

Zip9 == Zip5 \o <<"-", "1", "2", "3", "4">>

ZipDangling == <<"1", "0", "0", "0", "1", "-">>

ZipBad == <<"a", "b", "c">>

\* values the front end puts in the zipcode slot (None: not filled yet)
SlotZipcodes ==
    {None, Str(<<>>), Str(Zip5), Str(Zip9), Str(ZipDangling), Str(ZipBad)}

\* slot maps with and without the zipcode key
ZipSlotMaps == {<<>>} \cup {[zipcode |-> z] : z \in SlotZipcodes}

\* session attributes are client supplied strings: any text can be stored
StoredZipcodes == {Str(<<>>), Str(Zip5), Str(Zip9), Str(ZipBad)}

SessionSamples ==
    {None, Dict(<<>>), Dict([userName |-> Str(<<"x">>)])}
    \cup {Dict([zipcode |-> z]) : z \in StoredZipcodes}
    \cup {Dict([zipcode |-> z, userName |-> Str(<<"x">>)]) : z \in StoredZipcodes}

MovieQuery == <<"Q">>

TheaterQuery == <<"R", " ">>

TitlePool == {<<>>, <<"A">>, <<"B">>}

TheaterPool == {<<>>, <<"T">>, <<"U">>}

Request(name, source, slots, attrs) ==
    [currentIntent |-> [name |-> name, slots |-> slots],
     invocationSource |-> source,
     sessionAttributes |-> attrs,
     userId |-> "user",
     bot |-> [name |-> "MovieBot"]]

Reply(status_code, text, json) ==
    [status_code |-> status_code, text |-> Str(text), json |-> json]

NoReply == Reply(0, <<>>, <<>>)

NoProvider ==
    [showings |-> NoReply, search |-> NoReply,
     release_dates |-> NoReply, movie |-> NoReply]

Showtime(theater, time) == [theatre |-> [name |-> theater], dateTime |-> time]

SampleListing ==
    << [title |-> <<"A">>,
        showtimes |-> << Showtime(<<"T">>, <<"2018-03-02T19:30">>),
                         Showtime(<<"U">>, <<"2018-03-03T14:05">>) >>],
       [title |-> <<"A">>,
        showtimes |-> << Showtime(<<"T">>, <<"2018-03-03T14:05">>) >>],
       [title |-> <<"B">>,
        showtimes |-> << Showtime(<<"T">>, <<"2018-03-02T19:30">>) >>] >>

Unreachable == Reply(503, <<"Service Unavailable">>, <<>>)

EmptyBody == Reply(200, <<>>, <<>>)

\* a 200 reply whose body is the empty list
NoData == Reply(200, <<"[]">>, <<>>)

ShowingsSamples == {Unreachable, EmptyBody, NoData, Reply(200, <<"[...]">>, SampleListing)}

SearchSamples ==
    {Unreachable, EmptyBody,
     Reply(200, <<"{...}">>, [results |-> <<>>]),
     Reply(200, <<"{...}">>,
           [results |-> << [id |-> 11, title |-> <<"B">>],
                           [id |-> 12, title |-> <<"A">>] >>])}

ReleaseSamples ==
    {Unreachable,
     Reply(200, <<"{...}">>,
           [results |-> << [iso_3166_1 |-> "GB",
                            release_dates |-> << [certification |-> <<"15">>] >>],
                           [iso_3166_1 |-> "US",
                            release_dates |-> << [certification |-> <<"PG-13">>] >>] >>]),
     Reply(200, <<"{...}">>,
           [results |-> << [iso_3166_1 |-> "US", release_dates |-> <<>>] >>])}

DetailSamples ==
    {Unreachable,
     Reply(200, <<"{...}">>,
           [runtime |-> 113, release_date |-> <<"2018-02-16">>])}

Norm(s) == Strip(Lower(s))

NormPairs(names, query) == {<<Norm(n), Norm(query)>> : n \in names}

AllPairs == NormPairs(TitlePool, MovieQuery) \cup NormPairs(TheaterPool, TheaterQuery)

\* the ratio of '' to a non-empty string is 0 (no matching block)
RatioTables(pairs) ==
    {[p \in pairs |-> IF p[1] = <<>> THEN 0 ELSE f[p]] :
        f \in [{p \in pairs : p[1] # <<>>} -> {30, 50, 80}]}

NoRatio == [p \in {} |-> 0]

RatioSamples ==
    {[p \in AllPairs |->
        CASE p[1] = <<"a">> -> 80 [] p[1] = <<"b">> -> 30
          [] p[1] = <<"t">> -> 50 [] p[1] = <<"u">> -> 80 [] OTHER -> 0],
     [p \in AllPairs |-> IF p[1] = <<>> THEN 0 ELSE 30]}

Turn(ev, replies, table) == [event |-> ev, provider |-> replies, ratio |-> table]

\* slot maps of each intent: a slot the front end has not filled yet is None
SlotMaps(name, source) ==
    LET Texts(q) == IF source = "DialogCodeHook" THEN {None, Str(q)} ELSE {Str(q)}
    IN  CASE name = "GetMovies" -> ZipSlotMaps
          [] name = "FindMovie" ->
                {[movie_title |-> t] @@ z : t \in Texts(MovieQuery), z \in ZipSlotMaps}
          [] name = "GetTheaterMovies" ->
                {[theater_name |-> t] @@ z : t \in Texts(TheaterQuery), z \in ZipSlotMaps}
          [] name = "FindShowtimes" ->
                {[movie_title |-> t, theater_name |-> u] @@ z :
                    t \in Texts(MovieQuery), u \in Texts(TheaterQuery),
                    z \in ZipSlotMaps}
          [] name = "GetMovieDetail" ->
                {[movie_title |-> t] : t \in Texts(MovieQuery)}
          [] OTHER -> {<<>>}

LocationIntents == {"GetMovies", "FindMovie", "GetTheaterMovies", "FindShowtimes"}

\* the turns of a conversation whose carrier is attrs
Turns(attrs) ==
    UNION {
        {Turn(Request(name, "DialogCodeHook", slots, attrs), NoProvider, NoRatio) :
            slots \in SlotMaps(name, "DialogCodeHook")} :
        name \in LocationIntents}
    \cup UNION {
        {Turn(Request(name, "FulfillmentCodeHook", slots, attrs),
              [NoProvider EXCEPT !.showings = r], table) :
            slots \in SlotMaps(name, "FulfillmentCodeHook"),
            r \in ShowingsSamples, table \in RatioSamples} :
        name \in LocationIntents}
    \cup UNION {
        {Turn(Request("GetMovieDetail", source, slots, attrs),
              [NoProvider EXCEPT !.search = r1, !.release_dates = r2, !.movie = r3],
              table) :
            slots \in SlotMaps("GetMovieDetail", source),
            r1 \in SearchSamples, r2 \in ReleaseSamples, r3 \in DetailSamples,
            table \in RatioSamples} :
        source \in {"DialogCodeHook", "FulfillmentCodeHook"}}
    \cup {Turn(Request(name, source, <<>>, attrs), NoProvider, NoRatio) :
            name \in {"GetHelp", "OrderPizza"},
            source \in {"DialogCodeHook", "FulfillmentCodeHook"}}

SeqsUpTo(S, n) == UNION {[1..k -> S] : k \in 0..n}

Listings ==
    SeqsUpTo([title : TitlePool,
              showtimes : SeqsUpTo({Showtime(t, <<"2018-03-02T19:30">>) :
                                        t \in TheaterPool}, MaxShowtimes)],
             MaxMovies)

SearchResults == SeqsUpTo([id : {11, 12}, title : TitlePool], MaxMovies)

\* fulfillment turns with a stored location, over a listing and a ratio table
FindMovieTurn(attrs, movies, table) ==
    Turn(Request("FindMovie", "FulfillmentCodeHook",
                 [movie_title |-> Str(MovieQuery), zipcode |-> None], attrs),
         [NoProvider EXCEPT !.showings = Reply(200, <<"[...]">>, movies)],
         table)

GetTheaterMoviesTurn(attrs, movies, table) ==
    Turn(Request("GetTheaterMovies", "FulfillmentCodeHook",
                 [theater_name |-> Str(TheaterQuery), zipcode |-> None], attrs),
         [NoProvider EXCEPT !.showings = Reply(200, <<"[...]">>, movies)],
         table)

FindShowtimesTurn(attrs, movies, table) ==
    Turn(Request("FindShowtimes", "FulfillmentCodeHook",
                 [movie_title |-> Str(MovieQuery),
                  theater_name |-> Str(TheaterQuery), zipcode |-> None], attrs),
         [NoProvider EXCEPT !.showings = Reply(200, <<"[...]">>, movies)],
         table)

GetMovieDetailTurn(attrs, found, r3, table) ==
    Turn(Request("GetMovieDetail", "FulfillmentCodeHook",
                 [movie_title |-> Str(MovieQuery)], attrs),
         [NoProvider EXCEPT
             !.search = Reply(200, <<"{...}">>, [results |-> found]),
             !.release_dates = Unreachable, !.movie = r3],
         table)

----------------------------------------------------------------------------
(* The state machine: the front end sends a request carrying the session   *)
(* attributes it holds, lambda_handler answers it, and the front end keeps *)
(* the session attributes of the response.                                 *)

NoEvent == Request("", "", <<>>, None)

NoResult == [outcome |-> "none", value |-> <<>>, calls |-> 0]

Idle ==
    /\ event = NoEvent
    /\ provider = NoProvider
    /\ ratio = NoRatio
    /\ result = NoResult
    /\ pc = "idle"

Init ==
    /\ Idle
    /\ session \in SessionSamples
    /\ InitZip
    /\ InitCard

Send(turn) ==
    /\ event' = turn.event
    /\ provider' = turn.provider
    /\ ratio' = turn.ratio
    /\ result' = NoResult
    /\ pc' = "invoked"
    /\ UNCHANGED <<session, zipcode_text, zipcode_result, options, card>>

Receive ==
    /\ pc = "idle"
    /\ \E turn \in Turns(session) : Send(turn)

ReceiveListing ==
    /\ pc = "idle"
    /\ \/ \E movies \in Listings :
            \/ \E table \in RatioTables(NormPairs(TitlePool, MovieQuery)) :
                    Send(FindMovieTurn(session, movies, table))
            \/ \E table \in RatioTables(NormPairs(TheaterPool, TheaterQuery)) :
                    Send(GetTheaterMoviesTurn(session, movies, table))
            \/ \E table \in RatioTables(AllPairs) :
                    Send(FindShowtimesTurn(session, movies, table))
       \/ \E found \in SearchResults, r3 \in DetailSamples,
             table \in RatioTables(NormPairs(TitlePool, MovieQuery)) :
                Send(GetMovieDetailTurn(session, found, r3, table))

\* lambda_handler runs for the intent named; the front end keeps the
\* session attributes of a response that carries them
Invoke(name) ==
    /\ pc = "invoked"
    /\ event.currentIntent.name = name
    /\ result' = lambda_handler(event)
    /\ session' = IF /\ result'.outcome = "return"
                     /\ "sessionAttributes" \in DOMAIN result'.value
                  THEN result'.value.sessionAttributes
                  ELSE session
    /\ pc' = "done"
    /\ UNCHANGED <<event, provider, ratio,
                   zipcode_text, zipcode_result, options, card>>

\* the invocation is over: nothing of it outlives the request but the
\* session attributes the front end holds
EndTurn ==
    /\ pc = "done"
    /\ event' = NoEvent
    /\ provider' = NoProvider
    /\ ratio' = NoRatio
    /\ result' = NoResult
    /\ pc' = "idle"
    /\ UNCHANGED <<session, zipcode_text, zipcode_result, options, card>>

FindMovie == Invoke("FindMovie")

GetTheaterMovies == Invoke("GetTheaterMovies")

GetMovies == Invoke("GetMovies")

FindShowtimes == Invoke("FindShowtimes")

GetMovieDetail == Invoke("GetMovieDetail")

GetHelp == Invoke("GetHelp")

UnsupportedIntent == Invoke("OrderPizza")

Next ==
    \/ Receive
    \/ FindMovie
    \/ GetTheaterMovies
    \/ GetMovies
    \/ FindShowtimes
    \/ GetMovieDetail
    \/ GetHelp
    \/ UnsupportedIntent
    \/ EndTurn

Spec == Init /\ [][Next]_vars

\* whole conversations: the carrier starts without a 'zipcode' key and each
\* turn gets the carrier the previous turn left
InitConversation ==
    /\ Idle
    /\ session \in {attrs \in SessionSamples :
                        attrs.t = "dict" => "zipcode" \notin DOMAIN attrs.v}
    /\ InitZip
    /\ InitCard

SpecConversation == InitConversation /\ [][Next]_vars

\* best-match selection: fulfillment turns over every bounded listing
InitMatch ==
    /\ Idle
    /\ session = Dict([zipcode |-> Str(Zip5)])
    /\ InitZip
    /\ InitCard

NextMatch ==
    \/ ReceiveListing
    \/ FindMovie
    \/ GetTheaterMovies
    \/ FindShowtimes
    \/ GetMovieDetail
    \/ EndTurn

SpecMatch == InitMatch /\ [][NextMatch]_vars

\* a pure function on its own: no turn in flight, no session
InitAlone ==
    /\ Idle
    /\ session = None
    /\ InitZip
    /\ InitCard

\* the validator on its own
NextZip ==
    \/ TypeChar /\ UNCHANGED <<event, provider, ratio, result, session, pc, options, card>>
    \/ ValidateSlot /\ UNCHANGED <<event, provider, ratio, result, session, pc, options, card>>

SpecZip == InitAlone /\ [][NextZip]_vars

\* the card builder on its own
NextCard ==
    \/ AddOption /\ UNCHANGED <<event, provider, ratio, result, session, pc, zipcode_text, zipcode_result>>
    \/ BuildCard /\ UNCHANGED <<event, provider, ratio, result, session, pc, zipcode_text, zipcode_result>>

SpecCard == InitAlone /\ [][NextCard]_vars

----------------------------------------------------------------------------
(* Vocabulary of the properties *)

Done == pc = "done"

Returned == Done /\ result.outcome = "return"

Slots == event.currentIntent.slots

\* the carrier the request came with, as a map ({} when the front end sent none)
Inbound == IF event.sessionAttributes.t = "dict" THEN event.sessionAttributes.v ELSE <<>>

DialogTurn ==
    /\ Done
    /\ event.currentIntent.name \in LocationIntents
    /\ event.invocationSource = "DialogCodeHook"

FulfillmentTurn ==
    /\ Done
    /\ event.currentIntent.name \in LocationIntents
    /\ event.invocationSource = "FulfillmentCodeHook"

\* this turn's slot map carries a non-empty zipcode
FreshZipcode == "zipcode" \in DOMAIN Slots /\ Truthy(Slots["zipcode"])

\* the carrier holds a zipcode
StoredZipcode == "zipcode" \in DOMAIN Inbound

IsDialogAction(response) == "dialogAction" \in DOMAIN response

FiveDigits(s) == Len(s) = 5 /\ \A i \in 1..5 : s[i] \in Digits

----------------------------------------------------------------------------
(* C1: for every non-empty string in the zipcode slot, validate_zipcode    *)
(* succeeds exactly when the string matches ^\d{5}([- ]?\d{4})?$, and then *)
(* returns and stores the leading 5 digits; every other non-empty string   *)
(* gives the invalid marker False.                                         *)
C1_ZipcodeFormat ==
    zipcode_result # NoZipResult =>
        IF ZipcodeMatchStrict(zipcode_text)
        THEN /\ zipcode_result[1] = Str(SubSeq(zipcode_text, 1, 5))
             /\ zipcode_result[2] = Dict([zipcode |-> Str(SubSeq(zipcode_text, 1, 5))])
        ELSE zipcode_result[1] = False

----------------------------------------------------------------------------
(* C2: in a dialog-validation turn with no (or an empty) zipcode slot, a   *)
(* zipcode held by the session carrier is returned as valid without the    *)
(* format check, whatever the stored string is, and the handler returns    *)
(* Delegate.                                                               *)
C2_StoredReusedUnchecked ==
    (DialogTurn /\ ~FreshZipcode /\ StoredZipcode) =>
        /\ result.outcome = "return"
        /\ IsDialogAction(result.value)
        /\ result.value.dialogAction.type = "Delegate"
        /\ result.value.sessionAttributes = event.sessionAttributes

(* C2, as the code has it: the stored zipcode goes through the same format *)
(* check as a fresh one.  A stored value that matches is returned as its   *)
(* leading 5 digits, stored again, and the handler returns Delegate; a     *)
(* non-empty stored value that does not match gives the invalid outcome    *)
(* and no Delegate; an empty stored value counts as missing (ElicitSlot).  *)
C2_StoredRevalidated ==
    (DialogTurn /\ ~FreshZipcode /\ StoredZipcode) =>
        LET stored == Inbound["zipcode"].v
        IN  /\ result.outcome = "return"
            /\ IF stored = <<>>
               THEN /\ IsDialogAction(result.value)
                    /\ result.value.dialogAction.type = "ElicitSlot"
               ELSE IF ZipcodeMatch(stored)
               THEN /\ IsDialogAction(result.value)
                    /\ result.value.dialogAction.type = "Delegate"
                    /\ result.value.sessionAttributes =
                          Dict(Put(Inbound, "zipcode", Str(SubSeq(stored, 1, 5))))
               ELSE /\ ~IsDialogAction(result.value)
                    /\ result.value =
                          build_validation_result(FALSE, "zipcode", InvalidZipcodeMessage)

C2_Witness ==
    /\ DialogTurn /\ ~FreshZipcode /\ StoredZipcode
    /\ Inbound["zipcode"] = Str(ZipBad)
    /\ result.outcome = "return"
    /\ ~IsDialogAction(result.value)

----------------------------------------------------------------------------
(* C3: in each of the four location-dependent handlers, a dialog-          *)
(* validation turn whose location fails the format check returns an        *)
(* ElicitSlot for 'zipcode' with the current intent name and slots and the *)
(* fixed violation message, never another response shape, never raising.  *)
C3_InvalidElicitsSlot ==
    (DialogTurn /\ FreshZipcode /\ ~ZipcodeMatch(Slots["zipcode"].v)) =>
        /\ result.outcome = "return"
        /\ IsDialogAction(result.value)
        /\ result.value.dialogAction.type = "ElicitSlot"
        /\ result.value.dialogAction.slotToElicit = "zipcode"
        /\ result.value.dialogAction.intentName = event.currentIntent.name
        /\ result.value.dialogAction.slots = Slots
        /\ "message" \in DOMAIN result.value.dialogAction
        /\ result.value.dialogAction.message.content = InvalidZipcodeMessage

----------------------------------------------------------------------------
(* C4: every returned response carries sessionAttributes that is a map     *)
(* (the empty map when the front end sent none) and equals the inbound     *)
(* session attributes except possibly for the 'zipcode' key.               *)
C4_SessionAttributesEchoed ==
    Returned =>
        /\ "sessionAttributes" \in DOMAIN result.value
        /\ result.value.sessionAttributes.t = "dict"
        /\ DOMAIN result.value.sessionAttributes.v \ {"zipcode"}
              = DOMAIN Inbound \ {"zipcode"}
        /\ \A k \in DOMAIN Inbound \ {"zipcode"} :
              result.value.sessionAttributes.v[k] = Inbound[k]
        /\ \/ /\ "zipcode" \in DOMAIN result.value.sessionAttributes.v
              /\ FiveDigits(result.value.sessionAttributes.v["zipcode"].v)
              /\ event.invocationSource = "DialogCodeHook"
              /\ event.currentIntent.name \in LocationIntents
           \/ /\ "zipcode" \in DOMAIN result.value.sessionAttributes.v
              /\ StoredZipcode
              /\ result.value.sessionAttributes.v["zipcode"] = Inbound["zipcode"]
           \/ /\ "zipcode" \notin DOMAIN result.value.sessionAttributes.v
              /\ ~StoredZipcode

----------------------------------------------------------------------------
(* C5: in the fulfillment phase of every provider-using handler, a reply   *)
(* with a non-200 status or an empty body is handled exactly like a 200    *)
(* reply with no data: the same Close with the handler's "I'm sorry, I     *)
(* can't find ..." message, and no error raised.                           *)

\* the Close a handler gives for a 200 reply with no data
NoDataResponse ==
    LET name == event.currentIntent.name
        Sorry(content) ==
            close(event.sessionAttributes, "Fulfilled",
                  [contentType |-> "PlainText", content |-> content])
    IN  CASE name = "GetMovies" ->
                Sorry(<<"I'm sorry, I can't find any movies showing near *">>
                      \o Inbound["zipcode"].v \o <<"*">>)
          [] name = "FindMovie" ->
                Sorry(<<"I'm sorry, I can't find any theaters showing *">>
                      \o Slots["movie_title"].v \o <<"*">>)
          [] name = "GetTheaterMovies" ->
                Sorry(<<"I'm sorry, I can't find any movies showing at *">>
                      \o Slots["theater_name"].v \o <<"*">>)
          [] name = "FindShowtimes" ->
                Sorry(<<"I'm sorry, I can't find any showtimes for *">>
                      \o <<"* at ">>)
          [] name = "GetMovieDetail" ->
                Sorry(<<"I'm sorry, I can't find any info for *">>
                      \o Slots["movie_title"].v \o <<"*">>)

\* the turn reaches the handler's first provider call
ProviderTurn ==
    \/ FulfillmentTurn /\ StoredZipcode
    \/ /\ Done
       /\ event.currentIntent.name = "GetMovieDetail"
       /\ Slots["movie_title"].t = "str"

PrimaryReply ==
    IF event.currentIntent.name = "GetMovieDetail"
    THEN provider.search ELSE provider.showings

C5_ProviderFailureIsNoData ==
    (ProviderTurn /\ PrimaryReply \in {Unreachable, EmptyBody, NoData}) =>
        /\ result.outcome = "return"
        /\ result.value = NoDataResponse

----------------------------------------------------------------------------
(* C6: a dialog-validation turn with no location in the slot map and none  *)
(* in the session carrier returns ElicitSlot for 'zipcode' carrying the    *)
(* intent name, the slots, and a default prompt message.                   *)
C6_MissingElicitsWithPrompt ==
    (DialogTurn /\ ~FreshZipcode /\ ~StoredZipcode) =>
        /\ result.outcome = "return"
        /\ IsDialogAction(result.value)
        /\ result.value.dialogAction.type = "ElicitSlot"
        /\ result.value.dialogAction.slotToElicit = "zipcode"
        /\ result.value.dialogAction.intentName = event.currentIntent.name
        /\ result.value.dialogAction.slots = Slots
        /\ "message" \in DOMAIN result.value.dialogAction

(* C6, as the code has it: the ElicitSlot carries the intent name, the     *)
(* slots and the session attributes ({} when none came in) and no message  *)
(* and no response card: the prompt is left to the front end.              *)
C6_MissingElicitsSlot ==
    (DialogTurn /\ ~FreshZipcode /\ ~StoredZipcode) =>
        /\ result.outcome = "return"
        /\ result.calls = 0
        /\ result.value =
              [sessionAttributes |-> Dict(Inbound),
               dialogAction |->
                  [type |-> "ElicitSlot",
                   intentName |-> event.currentIntent.name,
                   slots |-> Slots,
                   slotToElicit |-> "zipcode"]]

C6_Witness ==
    /\ DialogTurn /\ ~FreshZipcode /\ ~StoredZipcode
    /\ event.currentIntent.name = "FindShowtimes"
    /\ event.sessionAttributes = None
    /\ "zipcode" \in DOMAIN Slots
    /\ result.outcome = "return"
    /\ result.value.dialogAction.type = "ElicitSlot"

----------------------------------------------------------------------------
(* C7: a dialog-validation turn whose location validates, from the slot or *)
(* from the session carrier, returns Delegate with the inbound slot map    *)
(* unchanged and the normalized 5-digit location under 'zipcode' in the    *)
(* session attributes; no provider call is issued.                         *)

\* the location the turn is about: this turn's slot, else the stored one
Location ==
    IF FreshZipcode THEN Slots["zipcode"].v
    ELSE IF StoredZipcode THEN Inbound["zipcode"].v
    ELSE <<>>

C7_ValidDelegates ==
    (DialogTurn /\ Location # <<>> /\ ZipcodeMatch(Location)) =>
        /\ result.outcome = "return"
        /\ result.calls = 0
        /\ IsDialogAction(result.value)
        /\ result.value.dialogAction = [type |-> "Delegate", slots |-> Slots]
        /\ result.value.sessionAttributes.t = "dict"
        /\ DOMAIN result.value.sessionAttributes.v = DOMAIN Inbound \cup {"zipcode"}
        /\ result.value.sessionAttributes.v["zipcode"] = Str(SubSeq(Location, 1, 5))
        /\ FiveDigits(result.value.sessionAttributes.v["zipcode"].v)

C7_Witness ==
    /\ DialogTurn
    /\ FreshZipcode
    /\ Slots["zipcode"] = Str(Zip9)
    /\ ~StoredZipcode
    /\ result.outcome = "return"
    /\ result.value.dialogAction.type = "Delegate"

----------------------------------------------------------------------------
(* C8: for an option list of length n, build_response_card returns         *)
(* ceil(n/5) cards (none for n = 0), each with 1 to 5 buttons and the      *)
(* given subtitle, whose buttons concatenated in order are the options in  *)
(* input order; a single card keeps the title, and of several cards the    *)
(* k-th is titled "<title> - page k", k counted from 1.                    *)

Attachments == card.value.genericAttachments

\* ceil(n / 5)
PagesFor(n) == (n + 4) \div 5

----------------------------------------------------------------------------
(* C9: where a handler resolves a free-text slot against provider names,   *)
(* the candidate chosen is the first, in provider order, that attains the  *)
(* maximum similarity among those scoring at least 0.5; when none scores   *)
(* at least 0.5 the handler selects nothing and returns its not-found      *)
(* message, collecting nothing from any listing entry.                     *)

Score(name, query) == similar(Norm(name), Norm(query))

Survivors(names, query) == {i \in 1..Len(names) : Score(names[i], query) >= 50}

\* index of the first candidate with the maximal score of at least 0.5, or 0
FirstMax(names, query) ==
    IF Survivors(names, query) = {} THEN 0
    ELSE CHOOSE i \in Survivors(names, query) :
            \A j \in Survivors(names, query) :
                /\ Score(names[j], query) <= Score(names[i], query)
                /\ Score(names[j], query) = Score(names[i], query) => i <= j

MatchTurn ==
    /\ Returned
    /\ event.invocationSource = "FulfillmentCodeHook"
    /\ event.currentIntent.name
          \in {"FindMovie", "GetTheaterMovies", "FindShowtimes", "GetMovieDetail"}
    /\ ReplyOk(PrimaryReply)

Content == result.value.dialogAction.message.content

C9_BestMatch ==
    MatchTurn =>
        LET name == event.currentIntent.name
            movies == provider.showings.json
            found == provider.search.json.results
            title == FirstMax(Titles(movies), MovieQuery)
            theater == FirstMax(TheatreNames(movies), TheaterQuery)
            hit == FirstMax(Titles(found), MovieQuery)
        IN  CASE name = "FindMovie" ->
                    IF title = 0 THEN result.value = NoDataResponse
                    ELSE result.value.dialogAction.type = "ElicitIntent" =>
                            Content = <<"*">> \o Titles(movies)[title]
                                      \o <<"* is showing at the following theaters:">>
              [] name = "GetTheaterMovies" ->
                    IF theater = 0 THEN result.value = NoDataResponse
                    ELSE /\ result.value.dialogAction.type = "ElicitIntent"
                         /\ Content = <<"Currently showing at *">>
                                      \o TheatreNames(movies)[theater] \o <<"*:">>
              [] name = "FindShowtimes" ->
                    /\ result.value.dialogAction.type = "Close"
                    /\ Content[1] = "*" =>
                          /\ title # 0
                          /\ theater # 0
                          /\ SubSeq(Content, 1, Len(Titles(movies)[title])
                                                + Len(TheatreNames(movies)[theater]) + 2)
                                = <<"*">> \o Titles(movies)[title]
                                  \o <<"* is showing at ">>
                                  \o TheatreNames(movies)[theater]
                    /\ (title = 0 \/ theater = 0) =>
                          Content[1] = "I'm sorry, I can't find any showtimes for *"
              [] name = "GetMovieDetail" ->
                    IF hit = 0 THEN result.value = NoDataResponse
                    ELSE SubSeq(Content, 1, Len(found[hit].title) + 1)
                            = <<"Here is some info for *">> \o found[hit].title

\* the part of C9 that the code keeps: no listing entry has an empty name
C9_NamedEntries ==
    /\ \A i \in 1..Len(provider.showings.json) :
          /\ provider.showings.json[i].title # <<>>
          /\ \A j \in 1..Len(provider.showings.json[i].showtimes) :
                provider.showings.json[i].showtimes[j].theatre.name # <<>>

C9_BestMatchOfNamedEntries == C9_NamedEntries => C9_BestMatch

----------------------------------------------------------------------------
(* C10: a fulfillment-phase turn of a location-dependent handler with a    *)
(* validated location in the slot map or in the session carrier (either    *)
(* suffices) runs to completion and returns a Close with state Fulfilled   *)
(* or an ElicitIntent carrying a response card.                            *)

ValidatedInSlots == FreshZipcode /\ FiveDigits(Slots["zipcode"].v)

ValidatedInSession == StoredZipcode /\ FiveDigits(Inbound["zipcode"].v)

C10_LocationInEitherPlace ==
    (FulfillmentTurn /\ (ValidatedInSlots \/ ValidatedInSession)) =>
        /\ result.outcome = "return"
        /\ IsDialogAction(result.value)
        /\ \/ /\ result.value.dialogAction.type = "Close"
              /\ result.value.dialogAction.fulfillmentState = "Fulfilled"
           \/ /\ result.value.dialogAction.type = "ElicitIntent"
              /\ "responseCard" \in DOMAIN result.value.dialogAction

----------------------------------------------------------------------------
(* C11: in a dialog-validation turn whose slot map carries a non-empty     *)
(* zipcode, the outcome of validate_zipcode is the same whatever the       *)
(* session carrier holds.  A fresh value that passes the format check is   *)
(* returned as its leading 5 digits, which replace any stored zipcode and  *)
(* leave every other session key alone, and the handler delegates with     *)
(* that carrier.  A fresh value that fails the check gives the invalid     *)
(* marker False even when a valid zipcode is stored, the carrier comes     *)
(* back with the keys and values it had, and the carrier the front end     *)
(* holds is the one it sent.                                               *)
C11_FreshOverStored ==
    (DialogTurn /\ FreshZipcode) =>
        LET fresh == Slots["zipcode"].v
            validated == validate_zipcode(Slots, event.sessionAttributes)
        IN  /\ \A attrs \in SessionSamples :
                  validate_zipcode(Slots, attrs)[1] = validated[1]
            /\ result.outcome = "return"
            /\ IF ZipcodeMatch(fresh)
               THEN /\ validated[1] = Str(SubSeq(fresh, 1, 5))
                    /\ validated[2].t = "dict"
                    /\ DOMAIN validated[2].v = DOMAIN Inbound \cup {"zipcode"}
                    /\ validated[2].v["zipcode"] = Str(SubSeq(fresh, 1, 5))
                    /\ \A k \in DOMAIN Inbound \ {"zipcode"} :
                          validated[2].v[k] = Inbound[k]
                    /\ IsDialogAction(result.value)
                    /\ result.value.dialogAction.type = "Delegate"
                    /\ result.value.sessionAttributes = validated[2]
                    /\ session = validated[2]
               ELSE /\ validated[1] = False
                    /\ validated[2] = Dict(Inbound)
                    /\ ~IsDialogAction(result.value)
                    /\ result.value.isValid = FALSE
                    /\ session = event.sessionAttributes

\* an ill-formed fresh value met a well-formed stored one and another key
C11_Witness ==
    /\ DialogTurn
    /\ FreshZipcode
    /\ Slots["zipcode"] = Str(ZipBad)
    /\ StoredZipcode
    /\ Inbound["zipcode"] = Str(Zip5)
    /\ "userName" \in DOMAIN Inbound
    /\ result.outcome = "return"
    /\ ~IsDialogAction(result.value)
    /\ session = event.sessionAttributes

----------------------------------------------------------------------------
(* C12: in a conversation that starts from a carrier with no 'zipcode'     *)
(* key, where each turn gets the carrier the previous turn left, the       *)
(* carrier's 'zipcode', when present, is always a string of exactly 5      *)
(* digits; and a turn (any intent, any invocation source) whose slot map   *)
(* has no zipcode, an empty one, or one that fails the format check leaves *)
(* the carrier's 'zipcode' as it was: not written, not changed, not        *)
(* removed.                                                                *)

\* the carrier's zipcode: a set with the value, empty when there is none
CarrierZipcode(attrs) ==
    IF attrs.t = "dict" /\ "zipcode" \in DOMAIN attrs.v
    THEN {attrs.v["zipcode"]}
    ELSE {}

C12_CarrierZipcodeFiveDigits ==
    /\ \A z \in CarrierZipcode(session) : z.t = "str" /\ FiveDigits(z.v)
    /\ (Done /\ (~FreshZipcode \/ ~ZipcodeMatch(Slots["zipcode"].v))) =>
          CarrierZipcode(session) = CarrierZipcode(event.sessionAttributes)

\* a later turn of a conversation: a zipcode is stored from an earlier turn
\* and this turn brought an ill-formed one
C12_Witness ==
    /\ Done
    /\ FreshZipcode
    /\ Slots["zipcode"] = Str(ZipBad)
    /\ CarrierZipcode(event.sessionAttributes) = {Str(<<"1", "0", "0", "0", "1">>)}
    /\ CarrierZipcode(session) = {Str(<<"1", "0", "0", "0", "1">>)}

====
